---- MODULE Spec2Model ----
(***************************************************************************)
(* Ride-hailing dispatch core: drivers, rides and trips in PostgreSQL, the *)
(* geo index, the driver cache and the advisory locks in Redis, and the    *)
(* request handlers of RideService, MatchingService, TripService and       *)
(* DriverService running as concurrent tasks.  Every step of a handler is  *)
(* one access to the shared stores (one SQL statement or transaction, one  *)
(* Redis command); the work a handler does on its own copies between two   *)
(* accesses is folded into the step that follows it.                       *)
(***************************************************************************)
EXTENDS Integers, Sequences, FiniteSets, TLC

VARIABLES
    driverStatus,   \* drivers.status, per driver id
    locIndex,       \* Redis GEO set drivers:locations: driver id -> distance (km) from the pickup point
    driverCache,    \* Redis cache:driver:{id}: cached status, or "NONE"
    driverLock,     \* Redis lock:driver:{id}: TRUE iff the key exists
    rideLock,       \* Redis lock:ride:{id}: TRUE iff the key exists
    rides,          \* rides table: ride id -> row
    trips,          \* trips table: trip id -> row
    task,           \* the request handlers in flight: position and local copies
    assigns,        \* history: number of committed assignDriver calls per ride
    payments,       \* payments table: set of rows
    charges,        \* history: calls of PSP.Charge per trip id, and how many succeeded
    surge,          \* the last surge pricing: what it saw and the multiplier it returned
    now,            \* the wall clock (time.Now()), in ticks
    responses       \* Redis idempotency:{key}: the cached response, or NoResponse

vars == <<driverStatus, locIndex, driverCache, driverLock, rideLock, rides, trips, task, assigns,
          payments, charges, surge, now, responses>>

---------------------------------------------------------------------------
\* Bounds of the model.
MaxRides == 2
MaxTrips == 2

Drivers == {"d1", "d2"}
Tasks == {"t1", "t2"}
RideIds == 1..MaxRides
TripIds == 1..MaxTrips

\* Distances (km) a location update can put a driver at, seen from the pickup point.
Positions == {2, 4, 8}

defaultSearchRadiusKm == 5

DriverStatuses == {"OFFLINE", "ONLINE", "ON_TRIP"}
RideStatuses == {"REQUESTED", "ASSIGNED", "IN_TRIP", "COMPLETED", "CANCELLED"}
TripStatuses == {"STARTED", "PAUSED", "ENDED"}

\* drivers.tier; the tier of a driver never changes after registration.
DriverTier == [d \in Drivers |-> IF d = "d1" THEN "BASIC" ELSE "PREMIUM"]
\* MatchRequest.Tier: "" means any tier.
ReqTiers == {"", "PREMIUM"}

\* The clock: one tick is half a second, so that durations need not be whole
\* seconds.  time.Time{} (IsZero, NULL in the table) is NoTime; the clock
\* starts after it.
TicksPerSecond == 2
TicksPerMinute == 60 * TicksPerSecond
NoTime == 0
Epoch == 1

\* ride.AssignedDriverID == "" (NULL in the table).
NoDriver == ""

\* A row that does not exist yet.
\* surge: rides.surge_multiplier in hundredths.  started, ended, pausedAt:
\* instants in ticks, NoTime for NULL.  paused: trips.total_paused_seconds.
\* fare: trips.fare in FareUnit-ths of hundredths.
NoRide == [status |-> "NONE", driver |-> NoDriver, surge |-> 0]
NoTrip == [status |-> "NONE", ride |-> 0, driver |-> NoDriver,
           started |-> NoTime, ended |-> NoTime, pausedAt |-> NoTime, paused |-> 0, fare |-> 0]

\* No payment (GetByIdempotencyKey returns nil).
NoPayment == [id |-> 0, trip |-> 0, amount |-> 0, status |-> "NONE"]

\* No surge pricing has been asked for yet.
NoSurge == [failed |-> FALSE, supply |-> 0, demand |-> 0, pickup |-> <<>>, mult |-> 0]

\* A handler that is not running.
Idle == [pc |-> "idle", tier |-> "", ride |-> 0, trip |-> 0, drv |-> NoDriver,
         rsnap |-> NoRide, tsnap |-> NoTrip, cands |-> <<>>, idx |-> 0, seen |-> {},
         res |-> "", pay |-> NoPayment, fault |-> FALSE, holds |-> {}, amt |-> 0, key |-> ""]

\* The clock at start.
InitClock == now = Epoch

\* The Idempotency-Key headers of the requests.
Keys == {"k1"}

\* No cached response (GET idempotency:{key} returns redis.Nil).
\* code: the HTTP status; res, ride, drv: what the body says.
NoResponse == [code |-> "", res |-> "", ride |-> 0, drv |-> ""]

\* No response has been cached.
InitIdempotency == responses = [k \in Keys |-> NoResponse]

\* No payment has been processed and no price has been asked for.
InitPayments ==
    /\ payments = {}
    /\ charges = [x \in TripIds |-> [calls |-> 0, ok |-> 0]]
    /\ surge = NoSurge

---------------------------------------------------------------------------
\* Helpers over the stores.

RideExists(r) == rides[r].status # "NONE"
TripExists(x) == trips[x].status # "NONE"

\* The next ride / trip primary key (uuid.New()): the first unused id.
FreshRide == CHOOSE r \in RideIds : ~RideExists(r) /\ \A q \in RideIds : q < r => RideExists(q)
FreshTrip == CHOOSE x \in TripIds : ~TripExists(x) /\ \A y \in TripIds : y < x => TripExists(y)

\* Order of the drivers' names, to break ties between equal distances.
DriverRank(d) == IF d = "d1" THEN 1 ELSE 2

Closer_farthest(idx, d, e) == idx[d] > idx[e] \/ (idx[d] = idx[e] /\ DriverRank(d) <= DriverRank(e))
Closer(idx, d, e) == idx[d] < idx[e] \/ (idx[d] = idx[e] /\ DriverRank(d) <= DriverRank(e))

RECURSIVE SortByDistance(_, _)
SortByDistance(idx, S) ==
    IF S = {} THEN <<>>
    ELSE LET d == CHOOSE x \in S : \A e \in S : Closer(idx, x, e)
         IN <<d>> \o SortByDistance(idx, S \ {d})

\* LocationStore.FindNearbyDrivers: GEORADIUS ... ASC.
FindNearbyDrivers(idx, radiusKm) ==
    SortByDistance(idx, {d \in DOMAIN idx : idx[d] <= radiusKm})

\* LocationStore.UpdateLocation: GEOADD (overwrites).
GeoAdd(idx, d, pos) == [e \in (DOMAIN idx) \cup {d} |-> IF e = d THEN pos ELSE idx[e]]

\* LocationStore.RemoveLocation: ZREM.
GeoRemove(idx, d) == [e \in (DOMAIN idx) \ {d} |-> idx[e]]

\* TripRepository.GetActiveByDriverID: some trip of the driver with status != ENDED.
ActiveTrips(tr, d) == {x \in TripIds : tr[x].status \in {"STARTED", "PAUSED"} /\ tr[x].driver = d}
GetActiveByDriverID(tr, d) == ActiveTrips(tr, d) # {}

\* Unique partial index idx_trips_active_driver ON trips(driver_id) WHERE status != 'ENDED':
\* may row x be written with (driver d, status st)?
idx_trips_active_driver_off(tr, x, d, st) == TRUE
idx_trips_active_driver(tr, x, d, st) ==
    st = "ENDED" \/ ActiveTrips(tr, d) \ {x} = {}

\* SET lock:driver:{id} NX: TRUE iff the key was absent.
AcquireDriverLock_blind(locks, d) == TRUE
AcquireDriverLock(locks, d) == ~locks[d]

\* SET lock:ride:{id} NX: TRUE iff the key was absent.
AcquireRideLock_blind(locks, r) == TRUE
AcquireRideLock(locks, r) == ~locks[r]

\* The status Match's cheap filter looks at: the cached driver when the batch
\* lookup hits, the row read from the drivers table when it misses.
LookedUp(d) == IF driverCache[d] # "NONE" THEN driverCache[d] ELSE driverStatus[d]

PassesFilter(d, tier) == LookedUp(d) = "ONLINE" /\ (tier = "" \/ DriverTier[d] = tier)

\* The candidate the loop of Match is at.
Cand(t) == task[t].cands[task[t].idx]

Done(t, res) == [task EXCEPT ![t].pc = "done", ![t].res = res]

\* `holds` of a task says which of the keys it has SET NX are still the keys
\* it created: "ride" for lock:ride:{its ride}, "driver" for lock:driver:{its
\* candidate}.  The tasks once a key has left the store (DEL, or its ttl):
RideLockGone(tk, r) ==
    [u \in Tasks |-> IF "ride" \in tk[u].holds /\ tk[u].ride = r
                     THEN [tk[u] EXCEPT !.holds = @ \ {"ride"}] ELSE tk[u]]
DriverLockGone(tk, d) ==
    [u \in Tasks |-> IF "driver" \in tk[u].holds /\ tk[u].cands[tk[u].idx] = d
                     THEN [tk[u] EXCEPT !.holds = @ \ {"driver"}] ELSE tk[u]]

---------------------------------------------------------------------------
\* Initial state: two registered drivers, OFFLINE, no location, nothing cached,
\* no ride, no trip, no request in flight.
Init ==
    /\ driverStatus = [d \in Drivers |-> "OFFLINE"]
    /\ locIndex = <<>>
    /\ driverCache = [d \in Drivers |-> "NONE"]
    /\ driverLock = [d \in Drivers |-> FALSE]
    /\ rideLock = [r \in RideIds |-> FALSE]
    /\ rides = [r \in RideIds |-> NoRide]
    /\ trips = [x \in TripIds |-> NoTrip]
    /\ task = [t \in Tasks |-> Idle]
    /\ assigns = [r \in RideIds |-> 0]
    /\ InitPayments
    /\ InitClock
    /\ InitIdempotency

---------------------------------------------------------------------------
\* SurgeService.  Multipliers are in hundredths (100 is 1.0).

\* DefaultSurgeConfig().RadiusKm
SurgeRadiusKm == 5

\* What countDriversInArea returns when the location store fails.
FailOpenSupply == 10

\* The kilometres countActiveRequestsInArea takes one degree to be.
KmPerDegree == 111

\* Distances (km) between a ride's pickup and the location being priced.
PickupKms == {3, 8, 600}

\* countDriversInArea: the number of drivers FindNearbyDrivers returned, or
\* the default when it failed.
countDriversInArea(found, failed) == IF failed THEN FailOpenSupply ELSE found

\* countActiveRequestsInArea: the rides of GetAll that are not CANCELLED and
\* pass the distance test, which compares the squared distance in km with
\* radiusKm*radiusKm*111*111.
countActiveRequestsInArea(rs, pickup, radiusKm) ==
    Cardinality({r \in RideIds :
                    /\ rs[r].status \notin {"NONE", "CANCELLED"}
                    /\ pickup[r] * pickup[r] <= radiusKm * radiusKm * KmPerDegree * KmPerDegree})

\* calculateSurgeMultiplier with the tiers compared by > instead of >=.
calculateSurgeMultiplier_strict(supply, demand) ==
    IF supply = 0 THEN (IF demand > 0 THEN 200 ELSE 100)
    ELSE IF demand > 2 * supply THEN 200
    ELSE IF 2 * demand > 3 * supply THEN 150
    ELSE IF 5 * demand > 6 * supply THEN 125
    ELSE 100

\* calculateSurgeMultiplier: the tiers of demand/supply at 2.0, 1.5 and 1.2.
\* float64(demand)/float64(supply) is correctly rounded, so for counts of
\* this size ratio >= 1.2 holds exactly when 5*demand >= 6*supply (and
\* likewise for 1.5 and 2.0, which are exact).
calculateSurgeMultiplier(supply, demand) ==
    IF supply = 0 THEN (IF demand > 0 THEN 200 ELSE 100)
    ELSE IF demand >= 2 * supply THEN 200
    ELSE IF 2 * demand >= 3 * supply THEN 150
    ELSE IF 5 * demand >= 6 * supply THEN 125
    ELSE 100

\* The pickups of the model's rides are all at the pickup point.
SamePickup == [r \in RideIds |-> 0]

\* GetMultiplier as CreateRide calls it, for the pickup point.
PriceAt(idx, rs) ==
    calculateSurgeMultiplier(countDriversInArea(Len(FindNearbyDrivers(idx, SurgeRadiusKm)), FALSE),
                             countActiveRequestsInArea(rs, SamePickup, SurgeRadiusKm))

---------------------------------------------------------------------------
\* TripService: fare accounting.  Money is in FareUnit-ths of a currency unit,
\* so that half a second at perMinuteRate is one unit and nothing is rounded.

FareUnit == 2 * TicksPerMinute
baseFare == 2 * FareUnit
perMinuteRate == FareUnit \div 2
minimumFare == 5 * FareUnit

\* calculateFare without the minimum.
calculateFare_noMinimum(startTime, endTime, totalPaused) ==
    baseFare + ((endTime - startTime - totalPaused) * perMinuteRate) \div TicksPerMinute

\* TripService.calculateFare.
calculateFare(startTime, endTime, totalPaused) ==
    LET duration == endTime - startTime - totalPaused
        fare == baseFare + (duration * perMinuteRate) \div TicksPerMinute
    IN IF fare < minimumFare THEN minimumFare ELSE fare

\* EndTrip: a multiplier below 1.0 counts as 1.0.
surgeMultiplier(ride) == IF ride.surge < 100 THEN 100 ELSE ride.surge

\* TripRepository.GetByID: total_paused_seconds becomes a time.Duration.
scanTrip(row) == [row EXCEPT !.paused = @ * TicksPerSecond]

\* TripRepository.Create and Update: int64(trip.TotalPaused.Seconds()).
tripRow(trip) == [trip EXCEPT !.paused = @ \div TicksPerSecond]

\* Instants the clock can be read at: two minutes, five minutes, five minutes
\* and half a second, and ten minutes after the start.
Instants == {Epoch + 2 * TicksPerMinute, Epoch + 5 * TicksPerMinute,
             Epoch + 5 * TicksPerMinute + 1, Epoch + 10 * TicksPerMinute}

\* Time passes.
Tick(i) ==
    /\ i \in Instants
    /\ i > now
    /\ now' = i
    /\ UNCHANGED <<driverStatus, locIndex, driverCache, driverLock, rideLock, rides, trips, task, assigns>>
    /\ UNCHANGED <<payments, charges, surge, responses>>

---------------------------------------------------------------------------
\* DriverService

\* DriverService.UpdateLocation: GEOADD, UPDATE drivers SET status = 'ONLINE',
\* then re-read the row and cache it.
UpdateLocation(d, pos) ==
    /\ locIndex' = GeoAdd(locIndex, d, pos)
    /\ driverStatus' = [driverStatus EXCEPT ![d] = "ONLINE"]
    /\ driverCache' = [driverCache EXCEPT ![d] = "ONLINE"]
    /\ UNCHANGED <<driverLock, rideLock, rides, trips, task, assigns>>
    /\ UNCHANGED <<payments, charges, surge, now, responses>>

\* DriverService.SetDriverOffline: UPDATE drivers SET status = 'OFFLINE', ZREM,
\* invalidate the cached driver.
SetDriverOffline(d) ==
    /\ driverStatus' = [driverStatus EXCEPT ![d] = "OFFLINE"]
    /\ locIndex' = GeoRemove(locIndex, d)
    /\ driverCache' = [driverCache EXCEPT ![d] = "NONE"]
    /\ UNCHANGED <<driverLock, rideLock, rides, trips, task, assigns>>
    /\ UNCHANGED <<payments, charges, surge, now, responses>>

\* cache:driver:{id} expires (DriverCacheTTL).
CacheExpire(d) ==
    /\ driverCache[d] # "NONE"
    /\ driverCache' = [driverCache EXCEPT ![d] = "NONE"]
    /\ UNCHANGED <<driverStatus, locIndex, driverLock, rideLock, rides, trips, task, assigns>>
    /\ UNCHANGED <<payments, charges, surge, now, responses>>

---------------------------------------------------------------------------
\* RideService.CreateRide and MatchingService.Match

\* RideService.CreateRide up to the call of Match: price the pickup, INSERT
\* the ride, REQUESTED, with the multiplier.
CreateRideFrom(t, tier, from) ==
    /\ task[t].pc = from
    /\ \E r \in RideIds : ~RideExists(r)
    /\ rides' = [rides EXCEPT ![FreshRide] =
                  [NoRide EXCEPT !.status = "REQUESTED", !.surge = PriceAt(locIndex, rides)]]
    /\ task' = [task EXCEPT ![t] = [Idle EXCEPT !.pc = "m_lock", !.tier = tier,
                                                 !.ride = FreshRide, !.key = task[t].key]]
    /\ UNCHANGED <<driverStatus, locIndex, driverCache, driverLock, rideLock, trips, assigns>>
    /\ UNCHANGED <<payments, charges, surge, now, responses>>

\* POST /v1/rides without an Idempotency-Key.
CreateRide(t, tier) == CreateRideFrom(t, tier, "idle")

\* A call of MatchingService.Match for a ride that exists already (a re-match),
\* up to AcquireRideLock; not acquired -> ErrRideNotInRequestedState.
MatchStart(t, r, tier) ==
    /\ task[t].pc = "idle"
    /\ RideExists(r)
    /\ IF AcquireRideLock(rideLock, r)
       THEN /\ rideLock' = [rideLock EXCEPT ![r] = TRUE]
            /\ task' = [task EXCEPT ![t] = [Idle EXCEPT !.pc = "m_read", !.tier = tier, !.ride = r,
                                                         !.holds = {"ride"}]]
       ELSE /\ task' = [task EXCEPT ![t] = [Idle EXCEPT !.pc = "done", !.ride = r,
                                                         !.res = "ErrRideNotInRequestedState"]]
            /\ UNCHANGED rideLock
    /\ UNCHANGED <<driverStatus, locIndex, driverCache, driverLock, rides, trips, assigns>>
    /\ UNCHANGED <<payments, charges, surge, now, responses>>

\* Match called by CreateRide: AcquireRideLock; not acquired -> ErrRideNotInRequestedState.
MatchLockRide(t) ==
    /\ task[t].pc = "m_lock"
    /\ IF AcquireRideLock(rideLock, task[t].ride)
       THEN /\ rideLock' = [rideLock EXCEPT ![task[t].ride] = TRUE]
            /\ task' = [task EXCEPT ![t].pc = "m_read", ![t].holds = @ \cup {"ride"}]
       ELSE /\ task' = Done(t, "ErrRideNotInRequestedState")
            /\ UNCHANGED rideLock
    /\ UNCHANGED <<driverStatus, locIndex, driverCache, driverLock, rides, trips, assigns>>
    /\ UNCHANGED <<payments, charges, surge, now, responses>>

\* Match: rideRepo.GetByID; the ride must be REQUESTED (else return, and the
\* deferred ReleaseRideLock deletes the key).
MatchReadRide(t) ==
    /\ task[t].pc = "m_read"
    /\ IF rides[task[t].ride].status = "REQUESTED"
       THEN /\ task' = [task EXCEPT ![t].pc = "m_geo", ![t].rsnap = rides[task[t].ride]]
            /\ UNCHANGED rideLock
       ELSE /\ task' = [RideLockGone(task, task[t].ride) EXCEPT
                           ![t].pc = "done", ![t].res = "ErrRideNotInRequestedState"]
            /\ rideLock' = [rideLock EXCEPT ![task[t].ride] = FALSE]
    /\ UNCHANGED <<driverStatus, locIndex, driverCache, driverLock, rides, trips, assigns>>
    /\ UNCHANGED <<payments, charges, surge, now, responses>>

\* Match: FindNearbyDrivers; none -> ErrNoDriverAvailable.
MatchFindNearby(t) ==
    /\ task[t].pc = "m_geo"
    /\ LET found == FindNearbyDrivers(locIndex, defaultSearchRadiusKm)
       IN IF found = <<>>
          THEN /\ task' = [RideLockGone(task, task[t].ride) EXCEPT
                              ![t].pc = "done", ![t].res = "ErrNoDriverAvailable"]
               /\ rideLock' = [rideLock EXCEPT ![task[t].ride] = FALSE]
          ELSE /\ task' = [task EXCEPT ![t].pc = "m_fetch", ![t].cands = found]
               /\ UNCHANGED rideLock
    /\ UNCHANGED <<driverStatus, locIndex, driverCache, driverLock, rides, trips, assigns>>
    /\ UNCHANGED <<payments, charges, surge, now, responses>>

\* Match: FindNearbyDrivers fails (GEORADIUS returns an error); Match returns
\* the error, and the deferred ReleaseRideLock deletes the ride lock.
MatchFindNearbyFails(t) ==
    /\ task[t].pc = "m_geo"
    /\ task' = [RideLockGone(task, task[t].ride) EXCEPT
                   ![t].pc = "done", ![t].res = "ErrLocationStore", ![t].fault = TRUE]
    /\ rideLock' = [rideLock EXCEPT ![task[t].ride] = FALSE]
    /\ UNCHANGED <<driverStatus, locIndex, driverCache, driverLock, rides, trips, assigns>>
    /\ UNCHANGED <<payments, charges, surge, now, responses>>

\* RideService.CreateRide: the error it returns for what Match returned; ""
\* is a response without error (driver_assigned is res = "assigned").
CreateRideError_strict(res) == IF res = "assigned" THEN "" ELSE res
CreateRideError(res) == IF res \in {"assigned", "ErrNoDriverAvailable"} THEN "" ELSE res

\* Match: the batch lookup of the candidates in the cache, the read of the
\* missing ones from the drivers table (which are then cached), and the cheap
\* filter on status and tier that the loop applies to what was looked up.
MatchFetchDrivers(t) ==
    /\ task[t].pc = "m_fetch"
    /\ LET found == {task[t].cands[i] : i \in 1..Len(task[t].cands)}
       IN /\ task' = [task EXCEPT ![t].pc = "m_try", ![t].idx = 1,
                                  ![t].seen = {d \in found : PassesFilter(d, task[t].tier)}]
          /\ driverCache' = [d \in Drivers |->
                               IF d \in found /\ driverCache[d] = "NONE"
                               THEN driverStatus[d] ELSE driverCache[d]]
    /\ UNCHANGED <<driverStatus, locIndex, driverLock, rideLock, rides, trips, assigns>>
    /\ UNCHANGED <<payments, charges, surge, now, responses>>

\* Match: one turn of the loop up to AcquireDriverLock.  A candidate the cheap
\* filter rejects, or whose lock is held, is skipped; after the last candidate
\* Match returns ErrNoDriverAvailable.
MatchTryDriver(t) ==
    /\ task[t].pc = "m_try"
    /\ IF task[t].idx > Len(task[t].cands)
       THEN /\ task' = [RideLockGone(task, task[t].ride) EXCEPT
                           ![t].pc = "done", ![t].res = "ErrNoDriverAvailable"]
            /\ rideLock' = [rideLock EXCEPT ![task[t].ride] = FALSE]
            /\ UNCHANGED driverLock
       ELSE IF Cand(t) \in task[t].seen /\ AcquireDriverLock(driverLock, Cand(t))
       THEN /\ driverLock' = [driverLock EXCEPT ![Cand(t)] = TRUE]
            /\ task' = [task EXCEPT ![t].pc = "m_verify", ![t].holds = @ \cup {"driver"}]
            /\ UNCHANGED rideLock
       ELSE /\ task' = [task EXCEPT ![t].idx = @ + 1]
            /\ UNCHANGED <<driverLock, rideLock>>
    /\ UNCHANGED <<driverStatus, locIndex, driverCache, rides, trips, assigns>>
    /\ UNCHANGED <<payments, charges, surge, now, responses>>

\* Match: re-read the driver under the lock; not ONLINE -> release the driver
\* lock, invalidate the cached driver, next candidate.
MatchVerifyDriver(t) ==
    /\ task[t].pc = "m_verify"
    /\ IF driverStatus[Cand(t)] = "ONLINE"
       THEN /\ task' = [task EXCEPT ![t].pc = "m_assign"]
            /\ UNCHANGED <<driverLock, driverCache>>
       ELSE /\ task' = [DriverLockGone(task, Cand(t)) EXCEPT ![t].pc = "m_try", ![t].idx = @ + 1]
            /\ driverLock' = [driverLock EXCEPT ![Cand(t)] = FALSE]
            /\ driverCache' = [driverCache EXCEPT ![Cand(t)] = "NONE"]
    /\ UNCHANGED <<driverStatus, locIndex, rideLock, rides, trips, assigns>>
    /\ UNCHANGED <<payments, charges, surge, now, responses>>

\* MatchingService.assignDriver: one transaction that writes the ride row from
\* the copy Match read (status ASSIGNED, assigned_driver_id) and sets the
\* driver ON_TRIP.
assignDriver(t) ==
    /\ task[t].pc = "m_assign"
    /\ rides' = [rides EXCEPT ![task[t].ride] =
                    [task[t].rsnap EXCEPT !.status = "ASSIGNED", !.driver = Cand(t)]]
    /\ driverStatus' = [driverStatus EXCEPT ![Cand(t)] = "ON_TRIP"]
    /\ assigns' = [assigns EXCEPT ![task[t].ride] = @ + 1]
    /\ task' = [task EXCEPT ![t].pc = "m_fin", ![t].drv = Cand(t)]
    /\ UNCHANGED <<locIndex, driverCache, driverLock, rideLock, trips>>
    /\ UNCHANGED <<payments, charges, surge, now, responses>>

\* assignDriver fails (BeginTx, one of the two updates, or Commit returns an
\* error): the deferred Rollback undoes what the transaction wrote, Match
\* releases the driver lock and returns the error, and the deferred
\* ReleaseRideLock deletes the ride lock.
assignDriverFails_noRollback(t) ==
    /\ task[t].pc = "m_assign"
    /\ rides' = [rides EXCEPT ![task[t].ride] =
                    [task[t].rsnap EXCEPT !.status = "ASSIGNED", !.driver = Cand(t)]]
    /\ driverLock' = [driverLock EXCEPT ![Cand(t)] = FALSE]
    /\ rideLock' = [rideLock EXCEPT ![task[t].ride] = FALSE]
    /\ task' = [RideLockGone(DriverLockGone(task, Cand(t)), task[t].ride) EXCEPT
                   ![t].pc = "done", ![t].res = "ErrDatabase"]
    /\ UNCHANGED <<driverStatus, locIndex, driverCache, trips, assigns>>
    /\ UNCHANGED <<payments, charges, surge, now, responses>>
assignDriverFails(t) ==
    /\ task[t].pc = "m_assign"
    /\ driverLock' = [driverLock EXCEPT ![Cand(t)] = FALSE]
    /\ rideLock' = [rideLock EXCEPT ![task[t].ride] = FALSE]
    /\ task' = [RideLockGone(DriverLockGone(task, Cand(t)), task[t].ride) EXCEPT
                   ![t].pc = "done", ![t].res = "ErrDatabase"]
    /\ UNCHANGED <<driverStatus, locIndex, driverCache, rides, trips, assigns>>
    /\ UNCHANGED <<payments, charges, surge, now, responses>>

\* The request's context is cancelled (the client went away, or a deadline
\* passed) while Match holds the ride lock and is about to call a store with
\* it: rideRepo.GetByID, FindNearbyDrivers, driverRepo.GetByID under the driver
\* lock, or BeginTx of assignDriver.  The call returns the context's error and
\* Match unwinds: under the driver lock it calls ReleaseDriverLock(ctx, ...),
\* and its deferred ReleaseRideLock(ctx, ...) runs.  Both are a DEL issued
\* with the cancelled context; whether such a command still reaches the store
\* is the client library's business, so `reaches` is either.
MatchCancelled(t, reaches) ==
    /\ task[t].pc \in {"m_read", "m_geo", "m_verify", "m_assign"}
    /\ LET locked == task[t].pc \in {"m_verify", "m_assign"}
           freed == IF reaches /\ locked THEN DriverLockGone(task, Cand(t)) ELSE task
       IN /\ driverLock' = IF reaches /\ locked
                            THEN [driverLock EXCEPT ![Cand(t)] = FALSE] ELSE driverLock
          /\ rideLock' = IF reaches THEN [rideLock EXCEPT ![task[t].ride] = FALSE] ELSE rideLock
          /\ task' = [(IF reaches THEN RideLockGone(freed, task[t].ride) ELSE freed) EXCEPT
                         ![t].pc = "done", ![t].res = "ErrContextCanceled"]
    /\ UNCHANGED <<driverStatus, locIndex, driverCache, rides, trips, assigns>>
    /\ UNCHANGED <<payments, charges, surge, now, responses>>

\* Match after the commit: invalidate the cached driver, return the match;
\* the deferred ReleaseRideLock deletes the ride lock, the driver lock stays.
MatchReturn(t) ==
    /\ task[t].pc = "m_fin"
    /\ driverCache' = [driverCache EXCEPT ![task[t].drv] = "NONE"]
    /\ rideLock' = [rideLock EXCEPT ![task[t].ride] = FALSE]
    /\ task' = [RideLockGone(task, task[t].ride) EXCEPT ![t].pc = "done", ![t].res = "assigned"]
    /\ UNCHANGED <<driverStatus, locIndex, driverLock, rides, trips, assigns>>
    /\ UNCHANGED <<payments, charges, surge, now, responses>>

\* handler.mapErrorToHTTPStatus, for the errors the handlers of the model
\* return; anything it does not list (a database error, the location store's)
\* is StatusInternalServerError.
mapErrorToHTTPStatus(res) ==
    IF res \in {"ErrDriverHasActiveTrip", "ErrTripAlreadyEnded", "ErrTripNotStarted",
                "ErrTripNotPaused", "ErrRideNotInRequestedState", "ErrRideAlreadyCancelled",
                "ErrRideCannotBeCancelled"}
    THEN "StatusConflict"
    ELSE IF res \in {"ErrRideNotAssigned", "ErrDriverNotAssignedToRide"}
    THEN "StatusForbidden"
    ELSE IF res = "ErrNoDriverAvailable"
    THEN "StatusServiceUnavailable"
    ELSE "StatusInternalServerError"

\* The handler has answered; its task takes the next request.
Finish(t) ==
    /\ task[t].pc = "done"
    /\ task' = [task EXCEPT ![t] = Idle]
    /\ UNCHANGED <<driverStatus, locIndex, driverCache, driverLock, rideLock, rides, trips, assigns>>
    /\ UNCHANGED <<payments, charges, surge, now, responses>>

\* Is some Match between AcquireDriverLock(d) and the end of its use of the lock?
InDriverSection(d) ==
    \E t \in Tasks : task[t].pc \in {"m_verify", "m_assign", "m_fin"} /\ Cand(t) = d

\* lock:driver:{id} expires by its ttl (driverLockTTL).
ExpireDriverLock(d) ==
    /\ driverLock[d]
    /\ driverLock' = [driverLock EXCEPT ![d] = FALSE]
    /\ task' = DriverLockGone(task, d)
    /\ UNCHANGED <<driverStatus, locIndex, driverCache, rideLock, rides, trips, assigns>>
    /\ UNCHANGED <<payments, charges, surge, now, responses>>

\* lock:ride:{id} expires by its ttl (rideLockTTL).
ExpireRideLock(r) ==
    /\ rideLock[r]
    /\ rideLock' = [rideLock EXCEPT ![r] = FALSE]
    /\ task' = RideLockGone(task, r)
    /\ UNCHANGED <<driverStatus, locIndex, driverCache, driverLock, rides, trips, assigns>>
    /\ UNCHANGED <<payments, charges, surge, now, responses>>

\* The same, when every Match finishes its critical section within the ttl.
ExpireDriverLockTimely(d) ==
    /\ ~InDriverSection(d)
    /\ ExpireDriverLock(d)

---------------------------------------------------------------------------
\* middleware.IdempotencyMiddleware around POST /v1/rides

\* RideHandler.CreateRide: the HTTP status of the response.
CreateRideStatus(res) ==
    IF CreateRideError(res) = "" THEN "StatusCreated" ELSE mapErrorToHTTPStatus(res)

\* c.Writer.Status() >= 200 && c.Writer.Status() < 500
Cacheable(code) == code \notin {"StatusInternalServerError", "StatusServiceUnavailable"}

\* The middleware up to c.Next(): GET idempotency:{key}.  A cached response
\* is written as the answer and the chain is aborted; with none the handler
\* is to run.
IdempotencyMiddleware(t, key) ==
    /\ task[t].pc = "idle"
    /\ task' = [task EXCEPT ![t] =
                  IF responses[key] # NoResponse
                  THEN [Idle EXCEPT !.pc = "i_hit", !.key = key, !.res = responses[key].res,
                                    !.ride = responses[key].ride, !.drv = responses[key].drv]
                  ELSE [Idle EXCEPT !.pc = "i_next", !.key = key]]
    /\ UNCHANGED <<driverStatus, locIndex, driverCache, driverLock, rideLock, rides, trips, assigns>>
    /\ UNCHANGED <<payments, charges, surge, now, responses>>

\* c.Next(): RideHandler.CreateRide runs.
IdempotencyNext(t, tier) == CreateRideFrom(t, tier, "i_next")

\* The middleware after c.Next(), or after the cached answer: the response
\* the handler wrote is SET under idempotency:{key} when its status is below
\* 500, and the request is over.
IdempotencyReturn(t) ==
    /\ task[t].pc \in {"done", "i_hit"}
    /\ task[t].key # ""
    /\ responses' = IF task[t].pc = "done" /\ Cacheable(CreateRideStatus(task[t].res))
                     THEN [responses EXCEPT ![task[t].key] =
                             [code |-> CreateRideStatus(task[t].res), res |-> task[t].res,
                              ride |-> task[t].ride, drv |-> task[t].drv]]
                     ELSE responses
    /\ task' = [task EXCEPT ![t] = Idle]
    /\ UNCHANGED <<driverStatus, locIndex, driverCache, driverLock, rideLock, rides, trips, assigns>>
    /\ UNCHANGED <<payments, charges, surge, now>>


---------------------------------------------------------------------------
\* RideService.CancelRide

\* CancelRide: rideRepo.GetByID and the checks on the status read.
CancelRide(t, r) ==
    /\ task[t].pc = "idle"
    /\ RideExists(r)
    /\ task' = [task EXCEPT ![t] =
                  IF rides[r].status = "CANCELLED"
                  THEN [Idle EXCEPT !.pc = "done", !.ride = r, !.res = "ErrRideAlreadyCancelled"]
                  ELSE IF rides[r].status \notin {"REQUESTED", "ASSIGNED"}
                  THEN [Idle EXCEPT !.pc = "done", !.ride = r, !.res = "ErrRideCannotBeCancelled"]
                  ELSE [Idle EXCEPT !.pc = "c_write", !.ride = r, !.rsnap = rides[r]]]
    /\ UNCHANGED <<driverStatus, locIndex, driverCache, driverLock, rideLock, rides, trips, assigns>>
    /\ UNCHANGED <<payments, charges, surge, now, responses>>

\* CancelRide: rideRepo.Update writes every column of the row from the copy
\* read, with status CANCELLED (UPDATE rides SET ... WHERE id = $12).
CancelRideUpdate(t) ==
    /\ task[t].pc = "c_write"
    /\ rides' = [rides EXCEPT ![task[t].ride] = [task[t].rsnap EXCEPT !.status = "CANCELLED"]]
    /\ task' = Done(t, "ok")
    /\ UNCHANGED <<driverStatus, locIndex, driverCache, driverLock, rideLock, trips, assigns>>
    /\ UNCHANGED <<payments, charges, surge, now, responses>>

---------------------------------------------------------------------------
\* TripService

\* Requests of StartTrip that have passed the pre-check and may still insert a trip.
Starting == {t \in Tasks : task[t].pc \in {"s_read", "s_tx"}}

\* StartTrip: tripRepo.GetActiveByDriverID; an active trip -> ErrDriverHasActiveTrip.
StartTrip(t, r, d) ==
    /\ task[t].pc = "idle"
    /\ RideExists(r)
    /\ Cardinality({x \in TripIds : TripExists(x)}) + Cardinality(Starting) < MaxTrips
    /\ task' = [task EXCEPT ![t] =
                  IF GetActiveByDriverID(trips, d)
                  THEN [Idle EXCEPT !.pc = "done", !.ride = r, !.drv = d, !.res = "ErrDriverHasActiveTrip"]
                  ELSE [Idle EXCEPT !.pc = "s_read", !.ride = r, !.drv = d]]
    /\ UNCHANGED <<driverStatus, locIndex, driverCache, driverLock, rideLock, rides, trips, assigns>>
    /\ UNCHANGED <<payments, charges, surge, now, responses>>

\* StartTrip: rideRepo.GetByID; the ride must be ASSIGNED, and to this driver.
StartTripReadRide(t) ==
    /\ task[t].pc = "s_read"
    /\ task' = IF rides[task[t].ride].status # "ASSIGNED"
               THEN Done(t, "ErrRideNotAssigned")
               ELSE IF rides[task[t].ride].driver # task[t].drv
               THEN Done(t, "ErrDriverNotAssignedToRide")
               ELSE [task EXCEPT ![t].pc = "s_tx", ![t].rsnap = rides[task[t].ride]]
    /\ UNCHANGED <<driverStatus, locIndex, driverCache, driverLock, rideLock, rides, trips, assigns>>
    /\ UNCHANGED <<payments, charges, surge, now, responses>>

\* StartTrip: one transaction that inserts the trip (STARTED), writes the ride
\* row from the copy read (status IN_TRIP) and sets the driver ON_TRIP; the
\* insert fails on idx_trips_active_driver and the transaction is rolled back.
StartTripCommit(t) ==
    /\ task[t].pc = "s_tx"
    /\ IF idx_trips_active_driver(trips, FreshTrip, task[t].drv, "STARTED")
       THEN /\ trips' = [trips EXCEPT ![FreshTrip] =
                           tripRow([NoTrip EXCEPT !.status = "STARTED", !.ride = task[t].ride,
                                                  !.driver = task[t].drv, !.started = now])]
            /\ rides' = [rides EXCEPT ![task[t].ride] = [task[t].rsnap EXCEPT !.status = "IN_TRIP"]]
            /\ driverStatus' = [driverStatus EXCEPT ![task[t].drv] = "ON_TRIP"]
            /\ task' = [task EXCEPT ![t].pc = "done", ![t].trip = FreshTrip, ![t].res = "ok"]
       ELSE /\ task' = Done(t, "ErrUniqueViolation")
            /\ UNCHANGED <<trips, rides, driverStatus>>
    /\ UNCHANGED <<locIndex, driverCache, driverLock, rideLock, assigns>>
    /\ UNCHANGED <<payments, charges, surge, now, responses>>

\* EndTrip: tripRepo.GetByID; an ENDED trip -> ErrTripAlreadyEnded.
EndTrip(t, x) ==
    /\ task[t].pc = "idle"
    /\ TripExists(x)
    /\ task' = [task EXCEPT ![t] =
                  IF trips[x].status = "ENDED"
                  THEN [Idle EXCEPT !.pc = "done", !.trip = x, !.res = "ErrTripAlreadyEnded"]
                  ELSE [Idle EXCEPT !.pc = "e_ride", !.trip = x, !.tsnap = scanTrip(trips[x])]]
    /\ UNCHANGED <<driverStatus, locIndex, driverCache, driverLock, rideLock, rides, trips, assigns>>
    /\ UNCHANGED <<payments, charges, surge, now, responses>>

\* EndTrip: a trip read as PAUSED gets the time since paused_at added to its
\* TotalPaused; then rideRepo.GetByID of the trip's ride.
EndTripReadRide(t) ==
    /\ task[t].pc = "e_ride"
    /\ LET trip == task[t].tsnap
           since == IF trip.status = "PAUSED" /\ trip.pausedAt # NoTime
                    THEN now - trip.pausedAt ELSE 0
       IN task' = [task EXCEPT ![t].pc = "e_tx", ![t].rsnap = rides[trip.ride],
                               ![t].tsnap.paused = @ + since]
    /\ UNCHANGED <<driverStatus, locIndex, driverCache, driverLock, rideLock, rides, trips, assigns>>
    /\ UNCHANGED <<payments, charges, surge, now, responses>>

\* EndTrip: the fare is computed for endTime = now; then one transaction that
\* writes the trip row from the copy read (status ENDED, fare, ended_at), the
\* ride row from the copy read (status COMPLETED) and sets the driver ONLINE.
\* The handler goes on at `next` with the fare as the amount to be paid.
EndTripWrite(t, next) ==
    /\ task[t].pc = "e_tx"
    /\ LET trip == task[t].tsnap
           fare == calculateFare(trip.started, now, trip.paused) * surgeMultiplier(task[t].rsnap)
       IN trips' = [trips EXCEPT ![task[t].trip] =
                      tripRow([trip EXCEPT !.status = "ENDED", !.fare = fare, !.ended = now])]
    /\ rides' = [rides EXCEPT ![task[t].tsnap.ride] = [task[t].rsnap EXCEPT !.status = "COMPLETED"]]
    /\ driverStatus' = [driverStatus EXCEPT ![task[t].tsnap.driver] = "ONLINE"]
    /\ task' = [task EXCEPT ![t].pc = next, ![t].res = "ok",
                            ![t].amt = calculateFare(task[t].tsnap.started, now, task[t].tsnap.paused)
                                       * surgeMultiplier(task[t].rsnap)]
    /\ UNCHANGED <<locIndex, driverCache, driverLock, rideLock, assigns>>
    /\ UNCHANGED <<payments, charges, surge, now, responses>>

\* EndTrip up to its commit, where the payment it triggers plays no part.
EndTripCommit(t) == EndTripWrite(t, "done")

\* EndTrip up to its commit, going on to ProcessPayment.
EndTripCommitPay(t) == EndTripWrite(t, "e_pay")

\* PauseTrip: tripRepo.GetByID; the trip must be STARTED.
PauseTrip(t, x) ==
    /\ task[t].pc = "idle"
    /\ TripExists(x)
    /\ task' = [task EXCEPT ![t] =
                  IF trips[x].status # "STARTED"
                  THEN [Idle EXCEPT !.pc = "done", !.trip = x, !.res = "ErrTripNotStarted"]
                  ELSE [Idle EXCEPT !.pc = "p_write", !.trip = x, !.tsnap = scanTrip(trips[x])]]
    /\ UNCHANGED <<driverStatus, locIndex, driverCache, driverLock, rideLock, rides, trips, assigns>>
    /\ UNCHANGED <<payments, charges, surge, now, responses>>

\* TripRepository.Update as PauseTrip and ResumeTrip call it: every column of
\* the row is written from the copy read and changed by the caller; the
\* statement fails on idx_trips_active_driver.
TripUpdate(t, trip) ==
    /\ IF idx_trips_active_driver(trips, task[t].trip, trip.driver, trip.status)
       THEN /\ trips' = [trips EXCEPT ![task[t].trip] = tripRow(trip)]
            /\ task' = Done(t, "ok")
       ELSE /\ task' = Done(t, "ErrUniqueViolation")
            /\ UNCHANGED trips
    /\ UNCHANGED <<driverStatus, locIndex, driverCache, driverLock, rideLock, rides, assigns>>
    /\ UNCHANGED <<payments, charges, surge, now, responses>>

\* PauseTrip: tripRepo.Update with status PAUSED and paused_at = now.
PauseTripUpdate(t) ==
    /\ task[t].pc = "p_write"
    /\ TripUpdate(t, [task[t].tsnap EXCEPT !.status = "PAUSED", !.pausedAt = now])

\* ResumeTrip: tripRepo.GetByID; the trip must be PAUSED.
ResumeTrip(t, x) ==
    /\ task[t].pc = "idle"
    /\ TripExists(x)
    /\ task' = [task EXCEPT ![t] =
                  IF trips[x].status # "PAUSED"
                  THEN [Idle EXCEPT !.pc = "done", !.trip = x, !.res = "ErrTripNotPaused"]
                  ELSE [Idle EXCEPT !.pc = "r_write", !.trip = x, !.tsnap = scanTrip(trips[x])]]
    /\ UNCHANGED <<driverStatus, locIndex, driverCache, driverLock, rideLock, rides, trips, assigns>>
    /\ UNCHANGED <<payments, charges, surge, now, responses>>

\* ResumeTrip: tripRepo.Update with status STARTED, the time since paused_at
\* added to TotalPaused and paused_at reset.
ResumeTripUpdate(t) ==
    /\ task[t].pc = "r_write"
    /\ TripUpdate(t, [task[t].tsnap EXCEPT !.status = "STARTED",
                                           !.paused = @ + (now - task[t].tsnap.pausedAt),
                                           !.pausedAt = NoTime])

---------------------------------------------------------------------------
\* PaymentService.ProcessPayment, called by POST /v1/payments and by EndTrip
\* after its commit.  The idempotency key is "payment:" + trip id, so the trip
\* id stands for the key.

PspOutcomes == {"true", "false", "error"}

\* PaymentRepository.GetByIdempotencyKey: the row with the key, or nil.
GetByIdempotencyKey(ps, x) ==
    IF \E p \in ps : p.trip = x THEN CHOOSE p \in ps : p.trip = x ELSE NoPayment

\* ProcessPayment: existingPayment != nil -> return it.
existingPayment_unlessFailed(p) == p # NoPayment /\ p.status # "FAILED"
existingPayment(p) == p # NoPayment

\* payments.idempotency_key UNIQUE: may a row with key x be inserted?
payments_idempotency_key_off(ps, x) == TRUE
payments_idempotency_key(ps, x) == \A p \in ps : p.trip # x

\* The status ProcessPayment writes after PSP.Charge.
ChargeStatus_keepPending(success) == IF success THEN "SUCCESS" ELSE "PENDING"
ChargeStatus(success) == IF success THEN "SUCCESS" ELSE "FAILED"

\* ProcessPayment: GetByIdempotencyKey; an existing payment is returned as read.
\* POST /v1/payments with trip_id x and a positive amount.
ProcessPaymentOf(t, x, amount) ==
    /\ task[t].pc = "idle"
    /\ TripExists(x)
    /\ amount > 0
    /\ LET found == GetByIdempotencyKey(payments, x)
       IN task' = [task EXCEPT ![t] =
                     IF existingPayment(found)
                     THEN [Idle EXCEPT !.pc = "done", !.trip = x, !.pay = found, !.res = "ok"]
                     ELSE [Idle EXCEPT !.pc = "p_create", !.trip = x, !.amt = amount]]
    /\ UNCHANGED <<driverStatus, locIndex, driverCache, driverLock, rideLock, rides, trips, assigns>>
    /\ UNCHANGED <<payments, charges, surge, now, responses>>

\* POST /v1/payments by a client that pays the fare stored on the trip.
ProcessPayment(t, x) == ProcessPaymentOf(t, x, trips[x].fare)

\* EndTrip after its commit: ProcessPayment(trip.ID, fare), the same lookup.
EndTripProcessPayment(t) ==
    /\ task[t].pc = "e_pay"
    /\ LET found == GetByIdempotencyKey(payments, task[t].trip)
       IN task' = IF existingPayment(found)
                  THEN [task EXCEPT ![t].pc = "done", ![t].pay = found]
                  ELSE [task EXCEPT ![t].pc = "p_create"]
    /\ UNCHANGED <<driverStatus, locIndex, driverCache, driverLock, rideLock, rides, trips, assigns>>
    /\ UNCHANGED <<payments, charges, surge, now, responses>>

\* What the handler answers when ProcessPayment returns err: POST /v1/payments
\* answers the error, EndTrip drops it (payment = nil) and answers the trip.
PaymentError(t, err) == IF task[t].tsnap # NoTrip THEN "ok" ELSE err

\* ProcessPayment: paymentRepo.Create inserts the payment, PENDING, under a new
\* id; a duplicate key fails the INSERT and the error is returned.
ProcessPaymentCreate(t) ==
    /\ task[t].pc = "p_create"
    /\ IF payments_idempotency_key(payments, task[t].trip)
       THEN LET row == [id |-> Cardinality(payments) + 1, trip |-> task[t].trip,
                        amount |-> task[t].amt, status |-> "PENDING"]
            IN /\ payments' = payments \cup {row}
               /\ task' = [task EXCEPT ![t].pc = "p_charge", ![t].pay = row]
       ELSE /\ task' = Done(t, PaymentError(t, "ErrUniqueViolation"))
            /\ UNCHANGED payments
    /\ UNCHANGED <<driverStatus, locIndex, driverCache, driverLock, rideLock, rides, trips, assigns>>
    /\ UNCHANGED <<charges, surge, now, responses>>

\* ProcessPayment: psp.Charge; false and an error both lead to FAILED.
ProcessPaymentCharge(t, outcome) ==
    /\ task[t].pc = "p_charge"
    /\ charges' = [charges EXCEPT ![task[t].trip] =
                      [calls |-> @.calls + 1, ok |-> @.ok + (IF outcome = "true" THEN 1 ELSE 0)]]
    /\ task' = [task EXCEPT ![t].pc = "p_update",
                            ![t].fault = (outcome # "true"),
                            ![t].pay = [@ EXCEPT !.status = ChargeStatus(outcome = "true")]]
    /\ UNCHANGED <<driverStatus, locIndex, driverCache, driverLock, rideLock, rides, trips, assigns>>
    /\ UNCHANGED <<payments, surge, now, responses>>

\* ProcessPayment: paymentRepo.UpdateStatus (UPDATE payments SET status WHERE
\* id), then the payment is returned with that status.
ProcessPaymentUpdate(t) ==
    /\ task[t].pc = "p_update"
    /\ payments' = {IF p.id = task[t].pay.id THEN [p EXCEPT !.status = task[t].pay.status] ELSE p
                    : p \in payments}
    /\ task' = Done(t, "ok")
    /\ UNCHANGED <<driverStatus, locIndex, driverCache, driverLock, rideLock, rides, trips, assigns>>
    /\ UNCHANGED <<charges, surge, now, responses>>

\* ProcessPayment is interrupted between paymentRepo.Create and the
\* UpdateStatus that records what PSP.Charge answered (the process stops, or
\* the request is cancelled): the PENDING row stays as it was inserted.
ProcessPaymentInterrupted(t) ==
    /\ task[t].pc \in {"p_charge", "p_update"}
    /\ task' = Done(t, PaymentError(t, "ErrInterrupted"))
    /\ UNCHANGED <<driverStatus, locIndex, driverCache, driverLock, rideLock, rides, trips, assigns>>
    /\ UNCHANGED <<payments, charges, surge, now, responses>>

---------------------------------------------------------------------------
\* SurgeService.GetMultiplier as a request of its own.

\* GetMultiplier for a location at which the rides' pickups are pickup[r] km
\* away and the drivers locIndex[d] km away; failed: FindNearbyDrivers fails.
GetMultiplier(failed, pickup) ==
    /\ LET supply == countDriversInArea(Len(FindNearbyDrivers(locIndex, SurgeRadiusKm)), failed)
           demand == countActiveRequestsInArea(rides, pickup, SurgeRadiusKm)
       IN surge' = [failed |-> failed, supply |-> supply, demand |-> demand, pickup |-> pickup,
                    mult |-> calculateSurgeMultiplier(supply, demand)]
    /\ UNCHANGED <<driverStatus, locIndex, driverCache, driverLock, rideLock, rides, trips, task, assigns>>
    /\ UNCHANGED <<payments, charges, now, responses>>

\* GetMultiplier seen from its two counts: found drivers are in the area (or
\* the query fails) and demand rides are counted.
MaxSupply == 12
MaxDemand == 24

PriceArea(failed, found, demand) ==
    /\ LET supply == countDriversInArea(found, failed)
       IN surge' = [failed |-> failed, supply |-> supply, demand |-> demand, pickup |-> <<>>,
                    mult |-> calculateSurgeMultiplier(supply, demand)]
    /\ UNCHANGED <<driverStatus, locIndex, driverCache, driverLock, rideLock, rides, trips, task, assigns>>
    /\ UNCHANGED <<payments, charges, now, responses>>

---------------------------------------------------------------------------
\* The steps a handler takes once it has been started.
Step(t) ==
    \/ MatchLockRide(t)
    \/ MatchReadRide(t)
    \/ MatchFindNearby(t)
    \/ MatchFetchDrivers(t)
    \/ MatchTryDriver(t)
    \/ MatchVerifyDriver(t)
    \/ assignDriver(t)
    \/ MatchReturn(t)
    \/ CancelRideUpdate(t)
    \/ StartTripReadRide(t)
    \/ StartTripCommit(t)
    \/ EndTripReadRide(t)
    \/ EndTripCommit(t)
    \/ PauseTripUpdate(t)
    \/ ResumeTripUpdate(t)
    \/ Finish(t)

\* A request arrives and its handler starts.
Request(t) ==
    \/ \E tier \in ReqTiers : CreateRide(t, tier)
    \/ \E r \in RideIds, tier \in ReqTiers : MatchStart(t, r, tier)
    \/ \E r \in RideIds : CancelRide(t, r)
    \/ \E r \in RideIds, d \in Drivers : StartTrip(t, r, d)
    \/ \E x \in TripIds : EndTrip(t, x)
    \/ \E x \in TripIds : PauseTrip(t, x)
    \/ \E x \in TripIds : ResumeTrip(t, x)

\* What happens without a request handler of the core: the drivers' location
\* updates, and Redis expiring keys.
Environment ==
    \/ \E d \in Drivers, pos \in Positions : UpdateLocation(d, pos)
    \/ \E d \in Drivers : SetDriverOffline(d)
    \/ \E d \in Drivers : CacheExpire(d)
    \/ \E d \in Drivers : ExpireDriverLockTimely(d)

\* The whole system: any handlers, concurrently.
Next == Environment \/ \E t \in Tasks : Request(t) \/ Step(t)

Spec == Init /\ [][Next]_vars

\* The whole system with one request handled at a time.
NextSerial == Environment \/ Request("t1") \/ Step("t1")

SpecSerial == Init /\ [][NextSerial]_vars

---------------------------------------------------------------------------
\* Matching of one ride.  The ride was requested while no driver was online
\* (CreateRide from Init, answered ErrNoDriverAvailable) and is matched again by
\* concurrent calls of Match, while drivers come online and the rider cancels.
InitMatch ==
    /\ driverStatus = [d \in Drivers |-> "OFFLINE"]
    /\ locIndex = <<>>
    /\ driverCache = [d \in Drivers |-> "NONE"]
    /\ driverLock = [d \in Drivers |-> FALSE]
    /\ rideLock = [r \in RideIds |-> FALSE]
    /\ rides = [r \in RideIds |-> IF r = 1 THEN [NoRide EXCEPT !.status = "REQUESTED", !.surge = 100] ELSE NoRide]
    /\ trips = [x \in TripIds |-> NoTrip]
    /\ task = [t \in Tasks |-> Idle]
    /\ assigns = [r \in RideIds |-> 0]
    /\ InitPayments
    /\ InitClock
    /\ InitIdempotency

MatchSteps(t) ==
    \/ MatchLockRide(t)
    \/ MatchReadRide(t)
    \/ MatchFindNearby(t)
    \/ MatchFetchDrivers(t)
    \/ MatchTryDriver(t)
    \/ MatchVerifyDriver(t)
    \/ assignDriver(t)
    \/ MatchReturn(t)

NextMatch ==
    \/ \E d \in Drivers, pos \in Positions : UpdateLocation(d, pos)
    \/ \E d \in Drivers : CacheExpire(d)
    \/ \E d \in Drivers : ExpireDriverLockTimely(d)
    \/ \E t \in Tasks, r \in RideIds, tier \in ReqTiers : MatchStart(t, r, tier)
    \/ \E t \in Tasks : MatchReadRide(t)
    \/ \E t \in Tasks : MatchFindNearby(t)
    \/ \E t \in Tasks : MatchFetchDrivers(t)
    \/ \E t \in Tasks : MatchTryDriver(t)
    \/ \E t \in Tasks : MatchVerifyDriver(t)
    \/ \E t \in Tasks : assignDriver(t)
    \/ \E t \in Tasks : MatchReturn(t)
    \/ \E t \in Tasks, r \in RideIds : CancelRide(t, r)
    \/ \E t \in Tasks : CancelRideUpdate(t)
    \/ \E t \in Tasks : Finish(t)

SpecMatch == InitMatch /\ [][NextMatch]_vars

---------------------------------------------------------------------------
\* The whole system with one request handled at a time, without the re-match,
\* the pause and the resume.
NextDispatch ==
    \/ \E d \in Drivers, pos \in Positions : UpdateLocation(d, pos)
    \/ \E d \in Drivers : CacheExpire(d)
    \/ \E d \in Drivers : ExpireDriverLockTimely(d)
    \/ \E tier \in ReqTiers : CreateRide("t1", tier)
    \/ MatchSteps("t1")
    \/ \E r \in RideIds : CancelRide("t1", r)
    \/ CancelRideUpdate("t1")
    \/ \E r \in RideIds, d \in Drivers : StartTrip("t1", r, d)
    \/ StartTripReadRide("t1")
    \/ StartTripCommit("t1")
    \/ \E x \in TripIds : EndTrip("t1", x)
    \/ EndTripReadRide("t1")
    \/ EndTripCommit("t1")
    \/ Finish("t1")

SpecDispatch == Init /\ [][NextDispatch]_vars

\* A driver coming back from a trip.  Ride 1 is ASSIGNED to d1, who is ON_TRIP
\* and 2 km away; the Match of an earlier request has looked d1 up and cached
\* what the drivers table said, or no copy is cached; d2 is OFFLINE.  Requests
\* are handled one at a time.
InitReturn ==
    /\ rides = [r \in RideIds |->
                  IF r = 1
                  THEN [NoRide EXCEPT !.status = "ASSIGNED", !.driver = "d1", !.surge = 100]
                  ELSE NoRide]
    /\ driverStatus = [d \in Drivers |-> IF d = "d1" THEN "ON_TRIP" ELSE "OFFLINE"]
    /\ locIndex = [d \in {"d1"} |-> 2]
    /\ \E c \in {"NONE", "ON_TRIP"} : driverCache = [d \in Drivers |-> IF d = "d1" THEN c ELSE "NONE"]
    /\ driverLock = [d \in Drivers |-> FALSE]
    /\ rideLock = [r \in RideIds |-> FALSE]
    /\ trips = [x \in TripIds |-> NoTrip]
    /\ task = [t \in Tasks |-> Idle]
    /\ assigns = [r \in RideIds |-> IF r = 1 THEN 1 ELSE 0]
    /\ InitPayments
    /\ InitClock
    /\ InitIdempotency

NextReturn ==
    \/ \E d \in Drivers : CacheExpire(d)
    \/ \E tier \in ReqTiers : CreateRide("t1", tier)
    \/ MatchSteps("t1")
    \/ \E r \in RideIds, d \in Drivers : StartTrip("t1", r, d)
    \/ StartTripReadRide("t1")
    \/ StartTripCommit("t1")
    \/ \E x \in TripIds : EndTrip("t1", x)
    \/ EndTripReadRide("t1")
    \/ EndTripCommit("t1")
    \/ Finish("t1")

SpecReturn == InitReturn /\ [][NextReturn]_vars

\* Riders and drivers at the routes of the router that can assign a ride:
\* POST /v1/rides, the one caller of Match, and POST /v1/drivers/:id/location.
\* A request that has been accepted is handled to its end; no rider is bound
\* to send another one.
NextRequests ==
    \/ \E d \in Drivers, pos \in Positions : UpdateLocation(d, pos)
    \/ \E d \in Drivers : CacheExpire(d)
    \/ \E d \in Drivers : ExpireDriverLockTimely(d)
    \/ CreateRide("t1", "")
    \/ MatchSteps("t1")
    \/ Finish("t1")

SpecRequests ==
    /\ Init
    /\ [][NextRequests]_vars
    /\ WF_vars(MatchSteps("t1"))
    /\ WF_vars(Finish("t1"))
    /\ \A d \in Drivers : WF_vars(CacheExpire(d))
    /\ \A d \in Drivers : WF_vars(ExpireDriverLockTimely(d))

---------------------------------------------------------------------------
\* The trips of rides that have been assigned.  Every ride is ASSIGNED to some
\* driver; a driver with no ride is ONLINE, a driver with a ride is ON_TRIP or,
\* after a location update, ONLINE; the driver locks and cached drivers of the
\* assignments have expired.
InitTrip ==
    /\ \E a \in [RideIds -> Drivers] :
          /\ rides = [r \in RideIds |-> [NoRide EXCEPT !.status = "ASSIGNED", !.driver = a[r], !.surge = 100]]
          /\ driverStatus \in [Drivers -> {"ONLINE", "ON_TRIP"}]
          /\ \A d \in Drivers : (\A r \in RideIds : a[r] # d) => driverStatus[d] = "ONLINE"
    /\ locIndex = [d \in Drivers |-> 2]
    /\ driverCache = [d \in Drivers |-> "NONE"]
    /\ driverLock = [d \in Drivers |-> FALSE]
    /\ rideLock = [r \in RideIds |-> FALSE]
    /\ trips = [x \in TripIds |-> NoTrip]
    /\ task = [t \in Tasks |-> Idle]
    /\ assigns = [r \in RideIds |-> 1]
    /\ InitPayments
    /\ InitClock
    /\ InitIdempotency

NextTrip ==
    \/ \E t \in Tasks, r \in RideIds, d \in Drivers : StartTrip(t, r, d)
    \/ \E t \in Tasks : StartTripReadRide(t)
    \/ \E t \in Tasks : StartTripCommit(t)
    \/ \E t \in Tasks, x \in TripIds : EndTrip(t, x)
    \/ \E t \in Tasks : EndTripReadRide(t)
    \/ \E t \in Tasks : EndTripCommit(t)
    \/ \E t \in Tasks, x \in TripIds : PauseTrip(t, x)
    \/ \E t \in Tasks : PauseTripUpdate(t)
    \/ \E t \in Tasks, x \in TripIds : ResumeTrip(t, x)
    \/ \E t \in Tasks : ResumeTripUpdate(t)
    \/ \E t \in Tasks : Finish(t)

SpecTrip == InitTrip /\ [][NextTrip]_vars

\* The same rides while the rider cancels and the drivers report locations.
NextCancel ==
    \/ \E d \in Drivers : UpdateLocation(d, 2)
    \/ \E t \in Tasks, r \in RideIds : CancelRide(t, r)
    \/ \E t \in Tasks : CancelRideUpdate(t)
    \/ \E t \in Tasks, r \in RideIds, d \in Drivers : StartTrip(t, r, d)
    \/ \E t \in Tasks : StartTripReadRide(t)
    \/ \E t \in Tasks : StartTripCommit(t)
    \/ \E t \in Tasks, x \in TripIds : EndTrip(t, x)
    \/ \E t \in Tasks : EndTripReadRide(t)
    \/ \E t \in Tasks : EndTripCommit(t)
    \/ \E t \in Tasks : Finish(t)

SpecCancel == InitTrip /\ [][NextCancel]_vars

---------------------------------------------------------------------------
\* Two riders request a ride at the same time while d1 is the one ONLINE
\* driver within the search radius: d1 has reported a location 2 km away, its
\* cached copy is absent or fresh and its lock is free; d2 is OFFLINE and has
\* no location, or is ONLINE 8 km away.  Each task handles one request.
InitRace ==
    /\ \E far \in BOOLEAN :
          /\ driverStatus = [d \in Drivers |-> IF d = "d1" \/ far THEN "ONLINE" ELSE "OFFLINE"]
          /\ locIndex = IF far THEN [d \in Drivers |-> IF d = "d1" THEN 2 ELSE 8]
                               ELSE [d \in {"d1"} |-> 2]
          /\ driverCache \in [Drivers -> {"NONE", "ONLINE"}]
          /\ far \/ driverCache["d2"] = "NONE"
    /\ driverLock = [d \in Drivers |-> FALSE]
    /\ rideLock = [r \in RideIds |-> FALSE]
    /\ rides = [r \in RideIds |-> NoRide]
    /\ trips = [x \in TripIds |-> NoTrip]
    /\ task = [t \in Tasks |-> Idle]
    /\ assigns = [r \in RideIds |-> 0]
    /\ InitPayments
    /\ InitClock
    /\ InitIdempotency

NextRace ==
    \/ \E t \in Tasks : CreateRide(t, "")
    \/ \E t \in Tasks : MatchLockRide(t)
    \/ \E t \in Tasks : MatchReadRide(t)
    \/ \E t \in Tasks : MatchFindNearby(t)
    \/ \E t \in Tasks : MatchFetchDrivers(t)
    \/ \E t \in Tasks : MatchTryDriver(t)
    \/ \E t \in Tasks : MatchVerifyDriver(t)
    \/ \E t \in Tasks : assignDriver(t)
    \/ \E t \in Tasks : MatchReturn(t)
    \/ \E d \in Drivers : CacheExpire(d)
    \/ \E d \in Drivers : ExpireDriverLockTimely(d)

SpecRace == InitRace /\ [][NextRace]_vars

\* The same race when a driver lock may expire at any moment, also while the
\* Match that acquired it is between AcquireDriverLock and the commit.
NextRaceExpiry ==
    \/ \E t \in Tasks : CreateRide(t, "")
    \/ \E t \in Tasks : MatchLockRide(t)
    \/ \E t \in Tasks : MatchReadRide(t)
    \/ \E t \in Tasks : MatchFindNearby(t)
    \/ \E t \in Tasks : MatchFetchDrivers(t)
    \/ \E t \in Tasks : MatchTryDriver(t)
    \/ \E t \in Tasks : MatchVerifyDriver(t)
    \/ \E t \in Tasks : assignDriver(t)
    \/ \E t \in Tasks : MatchReturn(t)
    \/ \E d \in Drivers : CacheExpire(d)
    \/ \E d \in Drivers : ExpireDriverLock(d)

SpecRaceExpiry == InitRace /\ [][NextRaceExpiry]_vars

\* The race of SpecRace when the assignment transaction may fail.
NextAssignFail ==
    \/ NextRace
    \/ \E t \in Tasks : assignDriverFails(t)

SpecAssignFail == InitRace /\ [][NextAssignFail]_vars

---------------------------------------------------------------------------
\* Two riders request a ride, of any tier or of one tier, while both drivers
\* are ONLINE within the search radius, at the same distance or at different
\* ones, their cached copies absent or fresh and their locks free.
InitPass ==
    /\ driverStatus = [d \in Drivers |-> "ONLINE"]
    /\ locIndex \in [Drivers -> {p \in Positions : p <= defaultSearchRadiusKm}]
    /\ driverCache \in [Drivers -> {"NONE", "ONLINE"}]
    /\ driverLock = [d \in Drivers |-> FALSE]
    /\ rideLock = [r \in RideIds |-> FALSE]
    /\ rides = [r \in RideIds |-> NoRide]
    /\ trips = [x \in TripIds |-> NoTrip]
    /\ task = [t \in Tasks |-> Idle]
    /\ assigns = [r \in RideIds |-> 0]
    /\ InitPayments
    /\ InitClock
    /\ InitIdempotency

NextPass ==
    \/ \E t \in Tasks, tier \in {""} \cup {DriverTier[d] : d \in Drivers} : CreateRide(t, tier)
    \/ \E t \in Tasks : MatchLockRide(t)
    \/ \E t \in Tasks : MatchReadRide(t)
    \/ \E t \in Tasks : MatchFindNearby(t)
    \/ \E t \in Tasks : MatchFetchDrivers(t)
    \/ \E t \in Tasks : MatchTryDriver(t)
    \/ \E t \in Tasks : MatchVerifyDriver(t)
    \/ \E t \in Tasks : assignDriver(t)
    \/ \E t \in Tasks : MatchReturn(t)
    \/ \E d \in Drivers : CacheExpire(d)
    \/ \E d \in Drivers : ExpireDriverLockTimely(d)

SpecPass == InitPass /\ [][NextPass]_vars

---------------------------------------------------------------------------
\* Riders send POST /v1/rides with the same Idempotency-Key, again and again
\* and also at the same time, in the situation of SpecRace.
NextIdempotency ==
    \/ \E t \in Tasks, key \in Keys : IdempotencyMiddleware(t, key)
    \/ \E t \in Tasks : IdempotencyNext(t, "")
    \/ \E t \in Tasks : MatchLockRide(t)
    \/ \E t \in Tasks : MatchReadRide(t)
    \/ \E t \in Tasks : MatchFindNearby(t)
    \/ \E t \in Tasks : MatchFetchDrivers(t)
    \/ \E t \in Tasks : MatchTryDriver(t)
    \/ \E t \in Tasks : MatchVerifyDriver(t)
    \/ \E t \in Tasks : assignDriver(t)
    \/ \E t \in Tasks : MatchReturn(t)
    \/ \E t \in Tasks : IdempotencyReturn(t)
    \/ \E d \in Drivers : CacheExpire(d)
    \/ \E d \in Drivers : ExpireDriverLockTimely(d)

SpecIdempotency == InitRace /\ [][NextIdempotency]_vars

\* The race of SpecRace when a request may be cancelled during its Match.
NextMatchCancelled ==
    \/ NextRace
    \/ \E t \in Tasks, reaches \in BOOLEAN : MatchCancelled(t, reaches)

SpecMatchCancelled == InitRace /\ [][NextMatchCancelled]_vars

\* The same again with matching asked once more for a ride that exists while
\* the first Match for it is still running, and with the ride locks expiring
\* as well.
NextLockExpiry ==
    \/ NextRaceExpiry
    \/ \E t \in Tasks, r \in RideIds : MatchStart(t, r, "")
    \/ \E r \in RideIds : ExpireRideLock(r)

SpecLockExpiry == InitRace /\ [][NextLockExpiry]_vars

---------------------------------------------------------------------------
\* Payments for trips that have ended: every trip has run from start_trip to
\* the commit of end_trip (ride COMPLETED, driver ONLINE), and the payment is
\* requested by the ending handlers and by POST /v1/payments, concurrently.
InitPay ==
    /\ driverStatus = [d \in Drivers |-> "ONLINE"]
    /\ locIndex = [d \in Drivers |-> 2]
    /\ driverCache = [d \in Drivers |-> "NONE"]
    /\ driverLock = [d \in Drivers |-> FALSE]
    /\ rideLock = [r \in RideIds |-> FALSE]
    /\ \E a \in [RideIds -> Drivers] :
          /\ rides = [r \in RideIds |-> [NoRide EXCEPT !.status = "COMPLETED", !.driver = a[r], !.surge = 100]]
          /\ trips = [x \in TripIds |->
                        IF x \in RideIds
                        THEN [NoTrip EXCEPT !.status = "ENDED", !.ride = x, !.driver = a[x],
                                            !.started = Epoch, !.ended = Epoch,
                                            !.fare = minimumFare * 100]
                        ELSE NoTrip]
    /\ task = [t \in Tasks |-> Idle]
    /\ assigns = [r \in RideIds |-> 1]
    /\ InitPayments
    /\ InitClock
    /\ InitIdempotency

NextPay ==
    \/ \E t \in Tasks, x \in TripIds : ProcessPayment(t, x)
    \/ \E t \in Tasks : ProcessPaymentCreate(t)
    \/ \E t \in Tasks, outcome \in PspOutcomes : ProcessPaymentCharge(t, outcome)
    \/ \E t \in Tasks : ProcessPaymentUpdate(t)
    \/ \E t \in Tasks : Finish(t)

SpecPay == InitPay /\ [][NextPay]_vars

\* The same payments when a call may be interrupted, and clients keep asking:
\* for every trip a process call is made again and again, and every call that
\* is not interrupted runs to its end.
NextPayRetry ==
    \/ NextPay
    \/ \E t \in Tasks : ProcessPaymentInterrupted(t)

SpecPayRetry ==
    /\ InitPay
    /\ [][NextPayRetry]_vars
    /\ \A x \in TripIds : WF_vars(\E t \in Tasks : ProcessPayment(t, x))
    /\ \A t \in Tasks : WF_vars(ProcessPaymentCreate(t))
    /\ \A t \in Tasks : WF_vars(\E outcome \in PspOutcomes : ProcessPaymentCharge(t, outcome))
    /\ \A t \in Tasks : WF_vars(ProcessPaymentUpdate(t))
    /\ \A t \in Tasks : WF_vars(Finish(t))

---------------------------------------------------------------------------
\* The race of two create_ride calls when the location store may fail.
NextGeoFail ==
    \/ \E t \in Tasks : CreateRide(t, "")
    \/ \E t \in Tasks : MatchLockRide(t)
    \/ \E t \in Tasks : MatchReadRide(t)
    \/ \E t \in Tasks : MatchFindNearby(t)
    \/ \E t \in Tasks : MatchFindNearbyFails(t)
    \/ \E t \in Tasks : MatchFetchDrivers(t)
    \/ \E t \in Tasks : MatchTryDriver(t)
    \/ \E t \in Tasks : MatchVerifyDriver(t)
    \/ \E t \in Tasks : assignDriver(t)
    \/ \E t \in Tasks : MatchReturn(t)
    \/ \E d \in Drivers : CacheExpire(d)
    \/ \E d \in Drivers : ExpireDriverLockTimely(d)

SpecGeoFail == InitRace /\ [][NextGeoFail]_vars

\* Pricing by the two counts.
NextSurge ==
    \E failed \in BOOLEAN, found \in 0..MaxSupply, demand \in 0..MaxDemand :
        PriceArea(failed, found, demand)

SpecSurge == Init /\ [][NextSurge]_vars

\* Pricing while rides are requested, matched, driven and cancelled, one
\* request at a time, with one driver reporting its location near the pickups
\* and its lock expiring between rides.
NextDemand ==
    \/ UpdateLocation("d1", 2)
    \/ \E d \in Drivers : ExpireDriverLockTimely(d)
    \/ CreateRide("t1", "")
    \/ MatchSteps("t1")
    \/ \E r \in RideIds : CancelRide("t1", r)
    \/ CancelRideUpdate("t1")
    \/ \E r \in RideIds, d \in Drivers : StartTrip("t1", r, d)
    \/ StartTripReadRide("t1")
    \/ StartTripCommit("t1")
    \/ \E x \in TripIds : EndTrip("t1", x)
    \/ EndTripReadRide("t1")
    \/ EndTripCommit("t1")
    \/ Finish("t1")
    \/ \E pickup \in [RideIds -> PickupKms] : GetMultiplier(FALSE, pickup)

SpecDemand == Init /\ [][NextDemand]_vars

---------------------------------------------------------------------------
\* Fare accounting: the trip of an assigned ride is started, paused, resumed
\* and ended one request at a time while time passes.  The ride was priced at
\* any of the multipliers of the surge table.
SurgeMultipliers == {100, 125, 150, 200}

InitFare ==
    /\ \E d \in Drivers, m \in SurgeMultipliers :
          /\ rides = [r \in RideIds |->
                        IF r = 1
                        THEN [NoRide EXCEPT !.status = "ASSIGNED", !.driver = d, !.surge = m]
                        ELSE NoRide]
          /\ driverStatus = [e \in Drivers |-> IF e = d THEN "ON_TRIP" ELSE "ONLINE"]
    /\ locIndex = [d \in Drivers |-> 2]
    /\ driverCache = [d \in Drivers |-> "NONE"]
    /\ driverLock = [d \in Drivers |-> FALSE]
    /\ rideLock = [r \in RideIds |-> FALSE]
    /\ trips = [x \in TripIds |-> NoTrip]
    /\ task = [t \in Tasks |-> Idle]
    /\ assigns = [r \in RideIds |-> IF r = 1 THEN 1 ELSE 0]
    /\ InitPayments
    /\ InitClock
    /\ InitIdempotency

NextFare ==
    \/ \E i \in Instants : Tick(i)
    \/ \E r \in RideIds, d \in Drivers : StartTrip("t1", r, d)
    \/ StartTripReadRide("t1")
    \/ StartTripCommit("t1")
    \/ \E x \in TripIds : PauseTrip("t1", x)
    \/ PauseTripUpdate("t1")
    \/ \E x \in TripIds : ResumeTrip("t1", x)
    \/ ResumeTripUpdate("t1")
    \/ \E x \in TripIds : EndTrip("t1", x)
    \/ EndTripReadRide("t1")
    \/ EndTripCommit("t1")
    \/ Finish("t1")

SpecFare == InitFare /\ [][NextFare]_vars

---------------------------------------------------------------------------
\* Settling a trip: trip 1 of ride 1 is running (ride IN_TRIP, driver ON_TRIP)
\* and is ended while time passes, by requests that may overlap; every
\* EndTrip goes on to ProcessPayment with the fare it computed, and clients
\* post payments for the trip with an amount of their own.
Amounts == {minimumFare * 100, 2 * minimumFare * 100}

InitSettle ==
    /\ rides = [r \in RideIds |->
                  IF r = 1
                  THEN [NoRide EXCEPT !.status = "IN_TRIP", !.driver = "d1", !.surge = 100]
                  ELSE NoRide]
    /\ driverStatus = [e \in Drivers |-> IF e = "d1" THEN "ON_TRIP" ELSE "ONLINE"]
    /\ locIndex = [d \in Drivers |-> 2]
    /\ driverCache = [d \in Drivers |-> "NONE"]
    /\ driverLock = [d \in Drivers |-> FALSE]
    /\ rideLock = [r \in RideIds |-> FALSE]
    /\ trips = [x \in TripIds |->
                  IF x = 1
                  THEN tripRow([NoTrip EXCEPT !.status = "STARTED", !.ride = 1, !.driver = "d1",
                                              !.started = Epoch])
                  ELSE NoTrip]
    /\ task = [t \in Tasks |-> Idle]
    /\ assigns = [r \in RideIds |-> IF r = 1 THEN 1 ELSE 0]
    /\ InitPayments
    /\ InitClock
    /\ InitIdempotency

NextSettle ==
    \/ \E i \in Instants : Tick(i)
    \/ \E t \in Tasks, x \in TripIds : EndTrip(t, x)
    \/ \E t \in Tasks : EndTripReadRide(t)
    \/ \E t \in Tasks : EndTripCommitPay(t)
    \/ \E t \in Tasks : EndTripProcessPayment(t)
    \/ \E t \in Tasks, x \in TripIds, amount \in Amounts : ProcessPaymentOf(t, x, amount)
    \/ \E t \in Tasks : ProcessPaymentCreate(t)
    \/ \E t \in Tasks, outcome \in PspOutcomes : ProcessPaymentCharge(t, outcome)
    \/ \E t \in Tasks : ProcessPaymentUpdate(t)
    \/ \E t \in Tasks : Finish(t)

SpecSettle == InitSettle /\ [][NextSettle]_vars

---------------------------------------------------------------------------
\* Properties

\* The drivers of the rides that count as assigned.
Engaged(r) == rides[r].status \in {"ASSIGNED", "IN_TRIP"}

\* C1: at every instant, whatever the interleaving of start_trip, pause_trip,
\* resume_trip and end_trip, every driver has at most one trip whose status is
\* not ENDED.
OneActiveTripPerDriver ==
    \A d \in Drivers : Cardinality(ActiveTrips(trips, d)) <= 1

\* A start_trip was rolled back by the unique index while the driver's other
\* trip, started concurrently, is active.
OneActiveTripPerDriver_witness ==
    \E t \in Tasks :
        /\ task[t].pc = "done"
        /\ task[t].res = "ErrUniqueViolation"
        /\ Cardinality(ActiveTrips(trips, task[t].drv)) = 1

\* C2: at every instant each driver is the assigned driver of at most one ride
\* whose status is ASSIGNED or IN_TRIP, whatever the interleaving of
\* create_ride, update_location, start_trip, end_trip and cancel_ride.
NoDriverOnTwoRides ==
    \A r, q \in RideIds :
        (r # q /\ Engaged(r) /\ Engaged(q)) => rides[r].driver # rides[q].driver

\* C3: with d1 the one ONLINE driver within the radius and two concurrent
\* create_ride calls, once both calls have returned exactly one ride is
\* ASSIGNED to d1, and the other call got ErrNoDriverAvailable from Match
\* (which CreateRide answers without error, driver_assigned = false) with its
\* ride still REQUESTED and unassigned.
RaceAssignsExactlyOne ==
    (\A t \in Tasks : task[t].pc = "done") =>
        \E w \in Tasks :
            /\ task[w].res = "assigned"
            /\ task[w].drv = "d1"
            /\ rides[task[w].ride].status = "ASSIGNED"
            /\ rides[task[w].ride].driver = "d1"
            /\ \A l \in Tasks \ {w} :
                  /\ task[l].res = "ErrNoDriverAvailable"
                  /\ task[l].ride # task[w].ride
                  /\ rides[task[l].ride].status = "REQUESTED"
                  /\ rides[task[l].ride].driver = NoDriver

\* Both calls have returned; the one that lost had passed the cheap filter and
\* was turned away at d1's lock or at the re-read of d1 under the lock.
RaceAssignsExactlyOne_witness ==
    /\ \A t \in Tasks : task[t].pc = "done"
    /\ \E l \in Tasks : task[l].res = "ErrNoDriverAvailable" /\ "d1" \in task[l].seen
    /\ \E r \in RideIds : rides[r].status = "ASSIGNED"

\* C4: even when the driver lock gives no mutual exclusion (it expires while
\* its holder is in the critical section), two concurrent matches for
\* different rides never both commit an assignment of the same driver.
NoDoubleCommitWithoutLock ==
    \A t, u \in Tasks :
        (/\ t # u
         /\ task[t].pc \in {"m_fin", "done"} /\ task[t].drv # NoDriver
         /\ task[u].pc \in {"m_fin", "done"} /\ task[u].drv # NoDriver
         /\ task[t].ride # task[u].ride)
        => task[t].drv # task[u].drv

\* C5: once a ride has status ASSIGNED, IN_TRIP or COMPLETED, its
\* assigned_driver_id is non-null and no later step changes it.
AssignmentWriteOnce ==
    [][\A r \in RideIds :
          rides[r].status \in {"ASSIGNED", "IN_TRIP", "COMPLETED"} =>
              /\ rides[r].driver # NoDriver
              /\ rides'[r].driver = rides[r].driver]_vars

\* C6: of the concurrent calls of Match for one ride at most one reads the ride
\* as REQUESTED and commits an assignment: no ride is assigned twice.
AtMostOneAssignment ==
    \A r \in RideIds : assigns[r] <= 1

\* A Match was turned away by the ride lock while the ride was still REQUESTED
\* and the Match holding the lock was about to commit.
AtMostOneAssignment_witness ==
    \E t, u \in Tasks :
        /\ task[t].pc = "m_assign"
        /\ task[u].pc = "done"
        /\ task[u].res = "ErrRideNotInRequestedState"
        /\ task[u].ride = task[t].ride
        /\ rides[task[t].ride].status = "REQUESTED"

\* C7: the stored status of a trip only moves STARTED -> PAUSED,
\* PAUSED -> STARTED, STARTED -> ENDED or PAUSED -> ENDED, whatever the
\* interleaving of pause_trip, resume_trip and end_trip; ENDED never changes.
TripStatusDAG ==
    [][\A x \in TripIds :
          (TripExists(x) /\ trips'[x].status # trips[x].status) =>
              <<trips[x].status, trips'[x].status>> \in
                  {<<"STARTED", "PAUSED">>, <<"PAUSED", "STARTED">>,
                   <<"STARTED", "ENDED">>, <<"PAUSED", "ENDED">>}]_vars

\* C8: the status of a ride only moves REQUESTED -> ASSIGNED -> IN_TRIP ->
\* COMPLETED, REQUESTED -> CANCELLED or ASSIGNED -> CANCELLED, whatever the
\* interleaving of Match, cancel_ride, start_trip and end_trip; CANCELLED and
\* COMPLETED never change.
RideStatusDAG ==
    [][\A r \in RideIds :
          (RideExists(r) /\ rides'[r].status # rides[r].status) =>
              <<rides[r].status, rides'[r].status>> \in
                  {<<"REQUESTED", "ASSIGNED">>, <<"ASSIGNED", "IN_TRIP">>,
                   <<"IN_TRIP", "COMPLETED">>, <<"REQUESTED", "CANCELLED">>,
                   <<"ASSIGNED", "CANCELLED">>}]_vars

\* C9: a ride that has a trip is never CANCELLED, also when cancel_ride runs
\* concurrently with start_trip for the ride.
NoCancelledRideWithTrip ==
    \A x \in TripIds : TripExists(x) => rides[trips[x].ride].status # "CANCELLED"

\* C10: a driver leaves ON_TRIP only for ONLINE, and only in the step that
\* ends a trip of that driver.
LeavesOnTripOnlyAtTripEnd ==
    [][\A d \in Drivers :
          (driverStatus[d] = "ON_TRIP" /\ driverStatus'[d] # "ON_TRIP") =>
              /\ driverStatus'[d] = "ONLINE"
              /\ \E x \in TripIds :
                    /\ trips[x].driver = d
                    /\ trips[x].status \in {"STARTED", "PAUSED"}
                    /\ trips'[x].status = "ENDED"]_vars

\* C11: for every trip id, whatever the number of sequential or concurrent
\* ProcessPayment calls, PSP.Charge succeeds at most once.
AtMostOneCharge ==
    \A x \in TripIds : charges[x].ok <= 1

\* The trip was charged once while a concurrent call for it was refused by the
\* unique idempotency key.
AtMostOneCharge_witness ==
    \E t \in Tasks :
        /\ task[t].pc = "done"
        /\ task[t].res = "ErrUniqueViolation"
        /\ charges[task[t].trip].ok = 1

\* The calls of ProcessPayment for trip x that have returned.
Returned(x) == {t \in Tasks : task[t].pc = "done" /\ task[t].trip = x}

\* C12: any two ProcessPayment calls for the same trip id return payment
\* records with equal id and equal status, and exactly one payments row exists
\* for the trip.
SamePaymentReturned ==
    \A x \in TripIds : \A t, u \in Returned(x) :
        t # u =>
            /\ task[t].res = "ok"
            /\ task[u].res = "ok"
            /\ task[t].pay.id = task[u].pay.id
            /\ task[t].pay.status = task[u].pay.status
            /\ Cardinality({p \in payments : p.trip = x}) = 1

EndTripCommitsOnce ==
    [][\A t \in Tasks :
          (task[t].pc = "e_tx" /\ task'[t].pc = "done" /\ task'[t].res = "ok") =>
              trips[task[t].trip].status # "ENDED"]_vars

\* C16: end_trip commits trip ENDED, ride COMPLETED and driver ONLINE together,
\* so in no reachable state is a trip ENDED while its ride is not COMPLETED.
EndedTripRideCompleted ==
    \A x \in TripIds :
        trips[x].status = "ENDED" => rides[trips[x].ride].status = "COMPLETED"

\* C17: a trip is created only while its ride has status ASSIGNED and
\* assigned_driver_id equal to the trip's driver.
TripCreatedOnlyForAssignedRide ==
    [][\A x \in TripIds :
          (~TripExists(x) /\ trips'[x].status # "NONE") =>
              /\ rides[trips'[x].ride].status = "ASSIGNED"
              /\ rides[trips'[x].ride].driver = trips'[x].driver]_vars

\* C18: when the nearby query of the location store fails during matching,
\* Match reports ErrNoDriverAvailable, so create_ride answers without error,
\* driver_assigned = false, the ride still REQUESTED.
GeoFailureMeansNoDriver ==
    \A t \in Tasks :
        (task[t].pc = "done" /\ task[t].fault) =>
            /\ task[t].res = "ErrNoDriverAvailable"
            /\ CreateRideError(task[t].res) = ""
            /\ rides[task[t].ride].status = "REQUESTED"

\* C19: when the location store fails while a request is priced, the
\* multiplier is 1.0 whatever the demand.
FailOpenPricesAtOne ==
    surge.failed => surge.mult = 100

\* C20: the demand a pricing counts is the number of rides with status
\* REQUESTED, ASSIGNED or IN_TRIP whose pickup is within 5 km; and when every
\* ride is COMPLETED or CANCELLED, a request with supply > 0 is priced at 1.0.
DemandCountsActiveRidesInRadius ==
    [][surge' # surge =>
          /\ surge'.demand =
                Cardinality({r \in RideIds :
                                /\ rides[r].status \in {"REQUESTED", "ASSIGNED", "IN_TRIP"}
                                /\ surge'.pickup[r] <= SurgeRadiusKm})
          /\ ((\A r \in RideIds : rides[r].status \in {"NONE", "COMPLETED", "CANCELLED"})
                 /\ surge'.supply > 0) => surge'.mult = 100]_vars

\* C21: the multiplier depends on (supply, demand) only: with supply = 0 it
\* is 2.0 when demand > 0 and 1.0 otherwise; with supply > 0 it is 2.0 when
\* demand/supply >= 2.0, 1.5 when >= 1.5, 1.25 when >= 1.2, 1.0 otherwise,
\* the three boundaries included.
SurgeTable ==
    surge # NoSurge =>
        LET s == surge.supply
            d == surge.demand
        IN /\ s = 0 => surge.mult = (IF d > 0 THEN 200 ELSE 100)
           /\ s > 0 =>
                /\ (surge.mult = 200) <=> (10 * d >= 20 * s)
                /\ (surge.mult = 150) <=> (10 * d >= 15 * s /\ 10 * d < 20 * s)
                /\ (surge.mult = 125) <=> (10 * d >= 12 * s /\ 10 * d < 15 * s)
                /\ (surge.mult = 100) <=> (10 * d < 12 * s)

\* A pricing at the boundary ratio 1.2 (6 requests, 5 drivers) gave 1.25.
SurgeTable_witness ==
    surge.supply = 5 /\ surge.demand = 6 /\ surge.mult = 125 /\ ~surge.failed

TryAcquireExclusive ==
    [][\A t \in Tasks :
          /\ (task[t].pc = "m_try" /\ task'[t].pc = "m_verify") =>
                /\ ~driverLock[Cand(t)]
                /\ driverLock'[Cand(t)]
                /\ \A u \in Tasks \ {t} :
                      ~(task[u].pc \in {"m_verify", "m_assign", "m_fin"} /\ Cand(u) = Cand(t))
          /\ (/\ task[t].pc = "m_try" /\ task'[t].pc = "m_try"
              /\ task'[t].idx = task[t].idx + 1
              /\ Cand(t) \in task[t].seen) => driverLock[Cand(t)]
          /\ (task[t].pc = "m_lock" /\ task'[t].pc = "m_read") =>
                ~rideLock[task[t].ride] /\ rideLock'[task[t].ride]]_vars

\* One call holds d1's lock and is still using it; the other has asked for
\* the same lock and was refused.
TryAcquireExclusive_witness ==
    \E t, u \in Tasks :
        /\ t # u
        /\ task[t].pc \in {"m_verify", "m_assign"} /\ Cand(t) = "d1"
        /\ driverLock["d1"]
        /\ task[u].pc = "m_try" /\ task[u].idx = 2
        /\ task[u].cands[1] = "d1" /\ "d1" \in task[u].seen

\* C24: create_ride answers driver_assigned = true, with the driver and the
\* ride ASSIGNED, exactly when Match committed an assignment for its ride; and
\* when Match reports ErrNoDriverAvailable it answers without error,
\* driver_assigned = false, the ride stored as REQUESTED with no driver.
CreateRideAnswer ==
    \A t \in Tasks :
        task[t].pc = "done" =>
            LET r == task[t].ride
            IN /\ (task[t].res = "assigned") <=> (assigns[r] > 0)
               /\ task[t].res = "assigned" =>
                     /\ CreateRideError(task[t].res) = ""
                     /\ task[t].drv # NoDriver
                     /\ rides[r].status = "ASSIGNED"
                     /\ rides[r].driver = task[t].drv
               /\ task[t].res = "ErrNoDriverAvailable" =>
                     /\ CreateRideError(task[t].res) = ""
                     /\ task[t].drv = NoDriver
                     /\ rides[r].status = "REQUESTED"
                     /\ rides[r].driver = NoDriver

\* Both answers have been given: one call got d1, the other got no driver.
CreateRideAnswer_witness ==
    \E t, u \in Tasks :
        /\ task[t].pc = "done" /\ task[t].res = "assigned" /\ task[t].drv = "d1"
        /\ task[u].pc = "done" /\ task[u].res = "ErrNoDriverAvailable"
        /\ rides[task[u].ride].status = "REQUESTED"

\* C25: start_trip on a ride whose status is not ASSIGNED is answered with
\* Conflict, also when the driver is not the ride's driver; only a mismatch
\* of the driver on an ASSIGNED ride is answered with Forbidden.
StartTripConflictBeforeForbidden ==
    [][\A t \in Tasks :
          (task[t].pc = "s_read" /\ task'[t].pc = "done") =>
              LET ride == rides[task[t].ride]
                  code == mapErrorToHTTPStatus(task'[t].res)
              IN /\ ride.status # "ASSIGNED" => code = "StatusConflict"
                 /\ (ride.status = "ASSIGNED" /\ ride.driver # task[t].drv) =>
                       code = "StatusForbidden"]_vars

\* C26: a release frees only a lock the releaser still holds: no step of a
\* Match takes away the ride lock or the driver lock that another Match has
\* acquired after the releaser's own lock expired.
ReleaseFreesOwnLockOnly ==
    [][\A t \in Tasks, u \in Tasks :
          (u # t /\ task'[t].pc # task[t].pc) => task[u].holds \subseteq task'[u].holds]_vars

\* C27: whenever a trip is STARTED or PAUSED, its ride is IN_TRIP and its
\* driver is ON_TRIP, under any interleaving of start_trip, cancel_ride,
\* update_location and end_trip.
ActiveTripRideInTripDriverOnTrip ==
    \A x \in TripIds :
        trips[x].status \in {"STARTED", "PAUSED"} =>
            /\ rides[trips[x].ride].status = "IN_TRIP"
            /\ driverStatus[trips[x].driver] = "ON_TRIP"

\* C28: whenever a driver is ON_TRIP, some ride that is ASSIGNED or IN_TRIP
\* has that driver as its assigned driver; cancelling an ASSIGNED ride does not
\* leave its driver ON_TRIP with no such ride.
OnTripDriverHasActiveRide ==
    \A d \in Drivers :
        driverStatus[d] = "ON_TRIP" =>
            \E r \in RideIds : rides[r].status \in {"ASSIGNED", "IN_TRIP"} /\ rides[r].driver = d

\* C29: a ride has at most one trip over its whole life: no two trips,
\* started or ended, have the same ride_id.
RideHasAtMostOneTrip ==
    \A x, y \in TripIds :
        (x # y /\ TripExists(x) /\ TripExists(y)) => trips[x].ride # trips[y].ride

RefusedRideLockIsRideBeingMatched ==
    [][\A t \in Tasks :
          (/\ task[t].pc \in {"idle", "m_lock"} /\ task'[t].pc = "done"
           /\ \E u \in Tasks \ {t} : "ride" \in task[u].holds /\ task[u].ride = task'[t].ride)
          => /\ task'[t].res = "ErrRideBeingMatched"
             /\ task'[t].res # "ErrRideNotInRequestedState"
             /\ rides' = rides]_vars

\* C32: a Match that is cancelled, or runs past its deadline, while it holds
\* the ride lock or a driver lock releases them as it unwinds: when it has
\* returned, the keys it held are gone from the store.
CancelledMatchReleasesLocks ==
    [][\A t \in Tasks :
          (task[t].pc # "done" /\ task'[t].pc = "done" /\ task'[t].res = "ErrContextCanceled")
          => /\ "ride" \in task[t].holds => ~rideLock'[task[t].ride]
             /\ "driver" \in task[t].holds => ~driverLock'[Cand(t)]]_vars

\* C33: the payment of an ended trip is for the fare stored on the trip,
\* also when end_trip or process calls for the trip overlap.
PaymentAmountIsTripFare ==
    \A x \in TripIds : \A p \in payments :
        (trips[x].status = "ENDED" /\ p.trip = x) => p.amount = trips[x].fare

\* C34: no payment stays PENDING for ever: a PENDING payment of a trip that no
\* running call is about to settle (its call was interrupted) is brought to
\* SUCCESS or FAILED by a later process call for the trip.
PendingPaymentIsSettled ==
    \A x \in TripIds :
        (/\ \E p \in payments : p.trip = x /\ p.status = "PENDING"
         /\ \A t \in Tasks : ~(task[t].pc \in {"p_charge", "p_update"} /\ task[t].trip = x))
        ~> (\E p \in payments : p.trip = x /\ p.status \in {"SUCCESS", "FAILED"})

\* C35: a ride left REQUESTED because no driver was available is matched
\* later: from the moment an ONLINE, unlocked driver is within the radius,
\* the ride becomes ASSIGNED (or the driver stops being available).
EligibleDriverNear ==
    \E d \in DOMAIN locIndex :
        locIndex[d] <= defaultSearchRadiusKm /\ driverStatus[d] = "ONLINE" /\ ~driverLock[d]

OnlineCandidateNotSkippedByCache ==
    [][\A t \in Tasks :
          (task[t].pc = "m_fetch" /\ task'[t].pc = "m_try") =>
              \A i \in 1..Len(task[t].cands) :
                  LET d == task[t].cands[i]
                  IN (driverStatus[d] = "ONLINE" /\ (task[t].tier = "" \/ DriverTier[d] = task[t].tier))
                        => d \in task'[t].seen]_vars

\* Is candidate c, for the Match of task t, not ONLINE in the drivers table,
\* of another tier than the one asked for, or locked by another matcher?
NotEligible(t, c) ==
    \/ driverStatus[c] # "ONLINE"
    \/ (task[t].tier # "" /\ DriverTier[c] # task[t].tier)
    \/ (driverLock[c] /\ ~("driver" \in task[t].holds /\ Cand(t) = c))

\* C37: Match assigns the first candidate in ascending distance that is
\* ONLINE, of the tier asked for and whose driver lock it acquired: every
\* nearer driver within the radius is not ONLINE, tier-mismatched or locked by
\* another matcher.  Only such a candidate is skipped, and the loop goes
\* through the candidates once, one position at a time.
FirstEligibleCandidateAssigned ==
    [][\A t \in Tasks :
          /\ (task[t].pc = "m_assign" /\ task'[t].pc = "m_fin") =>
                /\ task'[t].drv = Cand(t)
                /\ ~NotEligible(t, Cand(t))
                /\ "driver" \in task[t].holds
                /\ \A c \in DOMAIN locIndex :
                      (locIndex[c] <= defaultSearchRadiusKm /\ locIndex[c] < locIndex[Cand(t)])
                          => NotEligible(t, c)
                /\ \A j \in 1..(task[t].idx - 1) : NotEligible(t, task[t].cands[j])
          /\ (task[t].pc \in {"m_try", "m_verify"} /\ task'[t].pc = "m_try"
                  /\ task'[t] # task[t]) =>
                /\ task'[t].idx = task[t].idx + 1
                /\ task'[t].cands = task[t].cands
                /\ NotEligible(t, Cand(t)) \/ task[t].pc = "m_verify"
                /\ task[t].pc = "m_verify" => driverStatus[Cand(t)] # "ONLINE"
          /\ (task[t].pc = "m_try" /\ task'[t].pc = "m_verify") =>
                /\ task'[t].idx = task[t].idx
                /\ ~driverLock[Cand(t)]
                /\ task[t].tier = "" \/ DriverTier[Cand(t)] = task[t].tier]_vars

\* A Match has skipped the nearer candidate and assigned the second one.
FirstEligibleCandidateAssigned_witness ==
    \E t \in Tasks :
        /\ task[t].pc = "done" /\ task[t].res = "assigned"
        /\ Len(task[t].cands) = 2 /\ task[t].idx = 2
        /\ task[t].drv = task[t].cands[2]
        /\ locIndex[task[t].cands[1]] < locIndex[task[t].cands[2]]

\* C38: a Match that has assigned a driver releases the ride lock and leaves
\* the driver lock alone, and the driver lock it keeps stays in the store
\* until its ttl takes it away: no step of a handler deletes it, so that no
\* other matcher can acquire it before.
KeptDriverLockHeldUntilTtl ==
    [][\A t \in Tasks :
          /\ (task[t].pc = "m_fin" /\ task'[t].pc = "done") =>
                /\ task'[t].res = "assigned"
                /\ ~rideLock'[task[t].ride]
                /\ driverLock'[task[t].drv] = driverLock[task[t].drv]
                /\ task'[t].holds = task[t].holds \ {"ride"}
          /\ (task[t].pc = "done" /\ task[t].res = "assigned" /\ "driver" \in task[t].holds
                  /\ \E u \in Tasks : task'[u].pc # task[u].pc) =>
                /\ "driver" \in task'[t].holds
                /\ driverLock'[task[t].drv]]_vars

\* C39: requests that carry the same Idempotency-Key run the handler at most
\* once, also when they overlap: all of them together create one ride, and a
\* request answered from the cache gets the response of the request that
\* created it.  (Every request of SpecIdempotency carries the same key.)
SameKeyRunsHandlerOnce ==
    /\ Cardinality({r \in RideIds : RideExists(r)}) <= 1
    /\ \A t \in Tasks :
          task[t].pc = "i_hit" =>
              /\ RideExists(task[t].ride)
              /\ responses[task[t].key] =
                    [code |-> CreateRideStatus(task[t].res), res |-> task[t].res,
                     ride |-> task[t].ride, drv |-> task[t].drv]

\* C40: the total paused time of a trip is the sum of the lengths of its
\* pauses: a resume_trip leaves the stored total greater by now - paused_at,
\* an end_trip of a PAUSED trip computes the fare with the stored total plus
\* the pause still open, and stores the total it has used.
TotalPausedIsSumOfPauses ==
    [][\A t \in Tasks :
          LET x == task[t].trip
          IN /\ (task[t].pc = "r_write" /\ task'[t].pc = "done" /\ task'[t].res = "ok") =>
                   trips'[x].paused * TicksPerSecond
                       = trips[x].paused * TicksPerSecond + (now - trips[x].pausedAt)
             /\ (task[t].pc = "e_ride" /\ task'[t].pc = "e_tx") =>
                   task'[t].tsnap.paused
                       = trips[x].paused * TicksPerSecond
                           + (IF trips[x].status = "PAUSED" THEN now - trips[x].pausedAt ELSE 0)
             /\ (task[t].pc = "e_tx" /\ task'[t].pc = "done") =>
                   trips'[x].paused * TicksPerSecond = task[t].tsnap.paused]_vars

====
